---- MODULE Spec2Model ----
(***************************************************************************)
(* Model of bin/partition_refs.py: the filter pipeline that main() runs    *)
(* over the record table (a pandas DataFrame), stage by stage, and the     *)
(* reconciliation of the filtered table with the parsed FASTA records.     *)
(*                                                                         *)
(* A table is a sequence of rows. A row carries its index label (idx, the  *)
(* label read_feather gave it), the set of its columns whose cell is       *)
(* missing (na: pandas NaN/None) and one field per column. The pandas      *)
(* semantics modelled are those of the 1.x series the script is written    *)
(* for (DataFrame.append exists): boolean indexing keeps row order,        *)
(* frame[boolean frame] is DataFrame.where, DataFrame.isin(DataFrame)      *)
(* aligns on index and column labels, groupby drops rows whose key is NaN, *)
(* Series.isin matches NaN with NaN.                                       *)
(***************************************************************************)
EXTENDS Integers, Sequences, FiniteSets, TLC

\* pc        the stage main is about to run ("done", "error" at the end)
\* args      the namespace parse_args returned
\* fs        the files the arguments name: the lines of the identifier files
\*           and the record names of the FASTA file
\* columns   the column labels of info
\* info      the table
\* trusted   the trusted rows selected from the loaded table
\* out_fa    the sequence output: whether it was opened, the records written
\* out_info  the metadata output: whether it was opened, the rows written
\* hist      history: the table as it was on entering each stage
VARIABLES pc, args, fs, columns, info, trusted, out_fa, out_info, hist

vars == <<pc, args, fs, columns, info, trusted, out_fa, out_info, hist>>

\* ------------------------------------------------------------------ bounds
MaxRows == 3
FullRows == 2
MaxCap == 2

\* ------------------------------------------------------------- the table
Columns == {"seqname", "accession", "version", "tax_id", "is_valid", "species",
            "is_type", "is_out", "length", "ambig_count", "seqhash"}
BoolColumns == {"is_valid", "is_type", "is_out"}
IntColumns == {"length", "ambig_count"}

\* the missing value of a string cell (NaN)
NaN == "NaN"

\* what a cell holds once DataFrame.where has blanked it
NaValue(c) ==
    IF c \in BoolColumns THEN FALSE ELSE IF c \in IntColumns THEN 0 ELSE NaN

\* seqname and version of the row loaded at position i
SeqNames == <<"s1", "s2", "s3", "s4", "s5">>
Versions == <<"v1", "v2", "v3", "v4", "v5">>

\* the row read_feather loads at position i with attributes a
Row(i, a) ==
    [idx |-> i,
     na |-> IF a.species = NaN THEN {"species"} ELSE {},
     seqname |-> SeqNames[i],
     accession |-> a.accession,
     version |-> Versions[i],
     tax_id |-> a.tax_id,
     is_valid |-> a.is_valid,
     species |-> a.species,
     is_type |-> a.is_type,
     is_out |-> a.is_out,
     length |-> a.length,
     ambig_count |-> a.ambig_count,
     seqhash |-> a.seqhash]

\* frame[mask]: the rows whose mask entry is true, in order
MaskRows(t, m) ==
    LET pos == SelectSeq([k \in 1..Len(t) |-> k], LAMBDA k: m[k])
    IN  [j \in 1..Len(pos) |-> t[pos[j]]]

\* Series.isin(values) for the cell of column c in row r
IsIn(r, c, values) ==
    IF c \in r.na THEN NaN \in values ELSE r[c] \in values

\* ------------------------------------------------------ identifier files
\* a text line: whether it starts with '#', and its stripped text
Line(text) == [comment |-> FALSE, text |-> text]
Comment(text) == [comment |-> TRUE, text |-> text]

ReadIds(lines) ==
    {l.text : l \in {x \in lines : ~x.comment}} \ {""}

\* ------------------------------------------------------------ truthiness
\* "if args.x:" for an optional int: None and 0 are both false
TruthyInt(o) == o.given /\ o.val # 0
\* "if args.prop_ambig_cutoff:" : None and 0.0 are both false
TruthyCutoff(o) == o.given /\ o.num # 0

\* ------------------------------------------------------------ the stages
\* mutant: every row is taken as trusted
TrustedRows_All(t, recs) == t

TrustedRows(t, recs) ==
    SelectSeq(t, LAMBDA r: \/ IsIn(r, "version", recs)
                           \/ IsIn(r, "accession", recs)
                           \/ IsIn(r, "seqname", recs))

\* mutant: the is_valid step runs after the trusted-taxid step
KeepColumn_ValidLast(t, a, ids) ==
    LET keep0 == [k \in 1..Len(t) |-> TRUE]
        keep1 == IF a.trusted_taxids
                 THEN [k \in 1..Len(t) |->
                          IF IsIn(t[k], "tax_id", ids) THEN TRUE ELSE keep0[k]]
                 ELSE keep0
    IN  IF a.is_valid
        THEN [k \in 1..Len(t) |-> IF ~t[k].is_valid THEN FALSE ELSE keep1[k]]
        ELSE keep1

\* the keep column after lines 83-92
KeepColumn(t, a, ids) ==
    LET keep0 == [k \in 1..Len(t) |-> TRUE]
        keep1 == IF a.is_valid
                 THEN [k \in 1..Len(t) |-> IF ~t[k].is_valid THEN FALSE ELSE keep0[k]]
                 ELSE keep0
        keep2 == IF a.trusted_taxids
                 THEN [k \in 1..Len(t) |->
                          IF IsIn(t[k], "tax_id", ids) THEN TRUE ELSE keep1[k]]
                 ELSE keep1
    IN  keep2

DropOrRows(t, keep) == MaskRows(t, keep)

MinLengthFilter(t, n) == SelectSeq(t, LAMBDA r: r.length >= n)

\* ambig_count / length <= cutoff in float arithmetic: x/0 is NaN or inf, and
\* neither compares <= anything; otherwise the quotient of two small ints
\* compares as the rationals do
PropAmbigOk(r, c) ==
    IF r.length = 0 THEN FALSE
    ELSE r.ambig_count * c.den <= c.num * r.length

PropAmbigFilter(t, c) == SelectSeq(t, LAMBDA r: PropAmbigOk(r, c))

IsTypeFilter(t) == SelectSeq(t, LAMBDA r: r.is_type)

IsSpeciesFilter(t) == SelectSeq(t, LAMBDA r: ~("species" \in r.na))

InliersFilter(t) == SelectSeq(t, LAMBDA r: ~r.is_out)

\* mutant: the seqname exclusion is left out
DoNotTrustFilter_NoSeqname(t, dnt) ==
    SelectSeq(t, LAMBDA r: /\ ~IsIn(r, "tax_id", dnt)
                           /\ ~IsIn(r, "accession", dnt)
                           /\ ~IsIn(r, "version", dnt))

\* the columns lines 120-123 read, in the order they read them
DoNotTrustColumns == <<"tax_id", "accession", "version", "seqname">>

\* info once the first n of lines 120-123 have re-bound it
RECURSIVE DoNotTrustPrefix(_, _, _)
DoNotTrustPrefix(t, dnt, n) ==
    IF n = 0 THEN t
    ELSE SelectSeq(DoNotTrustPrefix(t, dnt, n - 1),
                   LAMBDA r: ~IsIn(r, DoNotTrustColumns[n], dnt))

\* how many of lines 120-123 run before one reads a column the table lacks
DoNotTrustReached(cols) ==
    LET absent == {k \in 1..Len(DoNotTrustColumns) : DoNotTrustColumns[k] \notin cols}
    IN  IF absent = {} THEN Len(DoNotTrustColumns)
        ELSE (CHOOSE k \in absent : \A j \in absent : k <= j) - 1

DoNotTrustFilter(t, dnt) ==
    DoNotTrustPrefix(t, dnt, Len(DoNotTrustColumns))

\* mutant: keep='last'
DropDuplicates_Last(t) ==
    MaskRows(t, [k \in 1..Len(t) |->
        ~\E j \in (k + 1)..Len(t) : /\ t[j].accession = t[k].accession
                                    /\ t[j].seqhash = t[k].seqhash])

\* the column labels drop_duplicates(subset=['accession', 'seqhash']) reads:
\* it returns a copy of an empty frame before it looks at subset
DropDuplicatesReads(t) ==
    IF Len(t) = 0 THEN {} ELSE {"accession", "seqhash"}

\* drop_duplicates(subset=['accession', 'seqhash'], keep='first')
DropDuplicates(t) ==
    IF Len(t) = 0 THEN t ELSE
    MaskRows(t, [k \in 1..Len(t) |->
        ~\E j \in 1..(k - 1) : /\ t[j].accession = t[k].accession
                               /\ t[j].seqhash = t[k].seqhash])

\* trusted.isin(info): cell (k, c) is true when info has a row with the index
\* label of trusted row k whose cell in column c equals it (NaN equals nothing)
IsinFrame(t, df) ==
    [k \in 1..Len(t) |-> [c \in Columns |->
        \E j \in 1..Len(df) : /\ df[j].idx = t[k].idx
                              /\ c \notin t[k].na
                              /\ c \notin df[j].na
                              /\ df[j][c] = t[k][c]]]

\* frame[cond] with a boolean frame: DataFrame.where, cells where cond is
\* false become NaN, every row stays
Where(t, cond) ==
    [k \in 1..Len(t) |->
        LET r == t[k]
            W(c) == IF cond[k][c] THEN r[c] ELSE NaValue(c)
        IN  [idx |-> r.idx,
             na |-> r.na \cup {c \in Columns : ~cond[k][c]},
             seqname |-> W("seqname"),
             accession |-> W("accession"),
             version |-> W("version"),
             tax_id |-> W("tax_id"),
             is_valid |-> W("is_valid"),
             species |-> W("species"),
             is_type |-> W("is_type"),
             is_out |-> W("is_out"),
             length |-> W("length"),
             ambig_count |-> W("ambig_count"),
             seqhash |-> W("seqhash")]]

\* trusted[~trusted.isin(info)]
NotInInfo(t, df) ==
    LET isin == IsinFrame(t, df)
    IN  Where(t, [k \in 1..Len(t) |-> [c \in Columns |-> ~isin[k][c]]])

\* mutant: the trusted rows are put first
AppendTrusted_Prepend(df, t) == NotInInfo(t, df) \o df

AppendTrusted(df, t) == df \o NotInInfo(t, df)

\* groupby(by='species', as_index=False).nth(list(range(n))): the rows whose
\* position within their species group is in range(n), in table order; rows
\* whose species is NaN belong to no group and are left out
SpeciesCap(t, n) ==
    MaskRows(t, [k \in 1..Len(t) |->
        /\ "species" \notin t[k].na
        /\ Cardinality({j \in 1..(k - 1) : /\ "species" \notin t[j].na
                                           /\ t[j].species = t[k].species})
             \in 0..(n - 1)])

\* the sequence of each FASTA record (its content plays no part)
SeqOf(name) == "ACGT"

\* seqs = {s.id: s.seq for s in SeqIO.parse(...)}
ParseFasta(names) == [s \in names |-> SeqOf(s)]

\* the seqname values in table order (NaN for a blanked cell)
SeqnameValues(t) ==
    [k \in 1..Len(t) |-> IF "seqname" \in t[k].na THEN NaN ELSE t[k].seqname]

\* the records the loop of lines 142-146 writes
WriteFasta(t, seqs) ==
    LET hit == SelectSeq(SeqnameValues(t), LAMBDA s: s \in DOMAIN seqs)
    IN  [j \in 1..Len(hit) |-> [id |-> hit[j], seq |-> seqs[hit[j]]]]

\* the drop list of lines 140-146
DropList(t, seqs) ==
    SelectSeq(SeqnameValues(t), LAMBDA s: s \notin DOMAIN seqs)

\* mutant: the rows without a sequence stay
DropMissing_Keep(t, drop) == t

\* info[~info['seqname'].isin(set(drop))]
DropMissing(t, drop) ==
    LET dropset == {drop[k] : k \in 1..Len(drop)}
    IN  SelectSeq(t, LAMBDA r: ~IsIn(r, "seqname", dropset))

\* ---------------------------------------------------------- the arguments
NoInt == [given |-> FALSE, val |-> 0]
IntArg(v) == [given |-> TRUE, val |-> v]
NoCutoff == [given |-> FALSE, num |-> 0, den |-> 1]
CutoffArg(n, d) == [given |-> TRUE, num |-> n, den |-> d]

\* the namespace parse_args returns when no option is given
NoArgs ==
    [drop_duplicate_sequences |-> FALSE,
     is_valid |-> FALSE,
     trusted_taxids |-> FALSE,
     do_not_trust |-> FALSE,
     inliers |-> FALSE,
     is_species |-> FALSE,
     is_type |-> FALSE,
     min_length |-> NoInt,
     prop_ambig_cutoff |-> NoCutoff,
     species_cap |-> NoInt,
     trusted |-> FALSE]

\* the files the arguments name: the lines of the three identifier files
\* and the record names of the FASTA file
NoFiles(names) ==
    [trusted |-> {}, trusted_taxids |-> {}, do_not_trust |-> {}, fasta |-> names]

\* ----------------------------------------------------------- the pipeline
Stages == <<"trusted", "or_admit", "min_length", "prop_ambig", "is_type",
            "is_species", "inliers", "do_not_trust", "drop_duplicates",
            "reinsert", "species_cap", "reconcile", "done">>

StageSet == {Stages[k] : k \in 1..Len(Stages)}

\* One stage of main: when the stage is enabled and reads a column the table
\* lacks, pandas raises KeyError and the run ends; otherwise the table becomes
\* result (or stays, when the stage is not enabled) and the run moves on.
Stage(from, to, enabled, needed, result) ==
    /\ pc = from
    /\ IF enabled /\ ~(needed \subseteq columns)
       THEN /\ pc' = "error"
            /\ UNCHANGED <<info, hist>>
       ELSE /\ pc' = to
            /\ info' = IF enabled THEN result ELSE info
            /\ hist' = [hist EXCEPT ![to] = info']
    /\ UNCHANGED <<args, fs, out_fa, out_info>>

\* info[name] = ... and info.drop(name, axis='columns') on the column labels
AddColumn(cols, name) == cols \cup {name}
DropColumn(cols, name) == cols \ {name}

\* lines 75-81
SelectTrusted ==
    /\ Stage("trusted", "or_admit", args.trusted,
             {"version", "accession", "seqname"}, info)
    /\ trusted' = IF args.trusted /\ pc' # "error"
                  THEN TrustedRows(info, ReadIds(fs.trusted))
                  ELSE trusted
    /\ UNCHANGED columns

\* lines 83-95
OrAdmit ==
    /\ Stage("or_admit", "min_length", TRUE,
             (IF args.is_valid THEN {"is_valid"} ELSE {})
                 \cup (IF args.trusted_taxids THEN {"tax_id"} ELSE {}),
             DropOrRows(info, KeepColumn(info, args, ReadIds(fs.trusted_taxids))))
    /\ columns' = IF pc' = "error"
                  THEN AddColumn(columns, "keep")
                  ELSE DropColumn(AddColumn(columns, "keep"), "keep")
    /\ UNCHANGED trusted

\* lines 97-98
MinLength ==
    /\ Stage("min_length", "prop_ambig", TruthyInt(args.min_length),
             {"length"}, MinLengthFilter(info, args.min_length.val))
    /\ UNCHANGED <<trusted, columns>>

\* lines 100-105
PropAmbig ==
    /\ Stage("prop_ambig", "is_type", TruthyCutoff(args.prop_ambig_cutoff),
             {"ambig_count", "length"},
             PropAmbigFilter(info, args.prop_ambig_cutoff))
    /\ columns' = IF TruthyCutoff(args.prop_ambig_cutoff) /\ pc' # "error"
                  THEN DropColumn(AddColumn(columns, "prop_ambig"), "prop_ambig")
                  ELSE columns
    /\ UNCHANGED trusted

\* lines 107-108
IsType ==
    /\ Stage("is_type", "is_species", args.is_type, {"is_type"},
             IsTypeFilter(info))
    /\ UNCHANGED <<trusted, columns>>

\* lines 110-111
IsSpecies ==
    /\ Stage("is_species", "inliers", args.is_species, {"species"},
             IsSpeciesFilter(info))
    /\ UNCHANGED <<trusted, columns>>

\* lines 113-114
Inliers ==
    /\ Stage("inliers", "do_not_trust", args.inliers, {"is_out"},
             InliersFilter(info))
    /\ UNCHANGED <<trusted, columns>>

\* lines 116-123
\* each of the four lines re-binds info, so when one of them raises KeyError
\* the exclusions of the lines before it have been applied
DoNotTrust ==
    /\ pc = "do_not_trust"
    /\ LET dnt == ReadIds(fs.do_not_trust)
           n == DoNotTrustReached(columns)
       IN  IF args.do_not_trust /\ n < Len(DoNotTrustColumns)
           THEN /\ pc' = "error"
                /\ info' = DoNotTrustPrefix(info, dnt, n)
                /\ UNCHANGED hist
           ELSE /\ pc' = "drop_duplicates"
                /\ info' = IF args.do_not_trust
                           THEN DoNotTrustFilter(info, dnt) ELSE info
                /\ hist' = [hist EXCEPT !["drop_duplicates"] = info']
    /\ UNCHANGED <<args, fs, out_fa, out_info, trusted, columns>>

\* lines 125-127
DropDuplicateSequences ==
    /\ Stage("drop_duplicates", "reinsert", args.drop_duplicate_sequences,
             DropDuplicatesReads(info), DropDuplicates(info))
    /\ UNCHANGED <<trusted, columns>>

\* lines 129-132
TrustedReinsert ==
    /\ Stage("reinsert", "species_cap", args.trusted, {},
             AppendTrusted(info, trusted))
    /\ trusted' = IF args.trusted THEN NotInInfo(trusted, info) ELSE trusted
    /\ UNCHANGED columns

\* lines 134-136
SpeciesCapStage ==
    /\ Stage("species_cap", "reconcile", TruthyInt(args.species_cap),
             {"species"}, SpeciesCap(info, args.species_cap.val))
    /\ UNCHANGED <<trusted, columns>>

\* lines 138-150: the FASTA file is parsed, out_fa is opened and written, the
\* rows without a sequence are dropped and the table is written. The seqname
\* column is first read inside the with block, after out_fa has been opened.
Reconcile ==
    /\ pc = "reconcile"
    /\ LET seqs == ParseFasta(fs.fasta)
       IN  IF "seqname" \notin columns
           THEN /\ pc' = "error"
                /\ out_fa' = [opened |-> TRUE, records |-> <<>>]
                /\ UNCHANGED <<info, out_info, hist>>
           ELSE /\ pc' = "done"
                /\ out_fa' = [opened |-> TRUE, records |-> WriteFasta(info, seqs)]
                /\ info' = DropMissing(info, DropList(info, seqs))
                /\ out_info' = [opened |-> TRUE, rows |-> info']
                /\ hist' = [hist EXCEPT !["done"] = info']
    /\ UNCHANGED <<args, fs, columns, trusted>>

Next ==
    \/ SelectTrusted
    \/ OrAdmit
    \/ MinLength
    \/ PropAmbig
    \/ IsType
    \/ IsSpecies
    \/ Inliers
    \/ DoNotTrust
    \/ DropDuplicateSequences
    \/ TrustedReinsert
    \/ SpeciesCapStage
    \/ Reconcile

\* ------------------------------------------------------------ the inputs
\* A run's input: the parsed arguments, the files they name, and the table
\* read_feather loads (its column labels and its rows).
DefaultAttr ==
    [accession |-> "a1", tax_id |-> "t1", is_valid |-> TRUE, species |-> "sp1",
     is_type |-> TRUE, is_out |-> FALSE, length |-> 10, ambig_count |-> 0,
     seqhash |-> "h1"]

\* the tables of at most n rows whose rows take their attributes in attrs
Tables(n, attrs) ==
    UNION {{[i \in 1..len |-> Row(i, f[i])] : f \in [1..len -> attrs]} : len \in 0..n}

NamesOf(rows) == {rows[k].seqname : k \in 1..Len(rows)}

\* the state main starts in, once the arguments are parsed and the table is
\* loaded
Start(a, files, cols, rows) ==
    /\ pc = "trusted"
    /\ args = a
    /\ fs = files
    /\ columns = cols
    /\ info = rows
    /\ trusted = <<>>
    /\ out_fa = [opened |-> FALSE, records |-> <<>>]
    /\ out_info = [opened |-> FALSE, rows |-> <<>>]
    /\ hist = [s \in StageSet |-> IF s = "trusted" THEN rows ELSE <<>>]

\* OR options: is_valid and tax_id vary, with and without --is_valid and
\* --trusted-taxids
OrInputs ==
    LET attrs == {[DefaultAttr EXCEPT !.is_valid = v, !.tax_id = t] :
                      v \in BOOLEAN, t \in {"t1", "t2"}}
        lists == {{}, {Line("t1")}, {Comment("t1"), Line("t2"), Line("")}}
    IN  \E v \in BOOLEAN, g \in BOOLEAN, l \in lists, rows \in Tables(MaxRows, attrs) :
            Start([NoArgs EXCEPT !.is_valid = v, !.trusted_taxids = g],
                  [NoFiles(NamesOf(rows)) EXCEPT !.trusted_taxids = IF g THEN l ELSE {}],
                  Columns, rows)

\* numeric AND options: length and ambig_count vary, --min-length and
\* --prop-ambig-cutoff take values in and out of range
NumericInputs ==
    LET attrs == {[DefaultAttr EXCEPT !.length = n, !.ambig_count = m] :
                      n \in {0, 2, 10}, m \in {0, 1}} \
                 {[DefaultAttr EXCEPT !.length = 0, !.ambig_count = 1]}
        lens == {NoInt, IntArg(-1), IntArg(0), IntArg(10)}
        cuts == {NoCutoff, CutoffArg(0, 1), CutoffArg(1, 10), CutoffArg(1, 2),
                 CutoffArg(1, 1), CutoffArg(3, 2), CutoffArg(-1, 2)}
    IN  \E n \in lens, c \in cuts, rows \in Tables(MaxRows, attrs) :
            Start([NoArgs EXCEPT !.min_length = n, !.prop_ambig_cutoff = c],
                  NoFiles(NamesOf(rows)), Columns, rows)

\* boolean AND options: is_type, is_out and species vary
FlagInputs ==
    LET attrs == {[DefaultAttr EXCEPT !.is_type = t, !.is_out = o, !.species = s] :
                      t \in BOOLEAN, o \in BOOLEAN, s \in {NaN, "sp1"}}
    IN  \E t \in BOOLEAN, s \in BOOLEAN, i \in BOOLEAN, rows \in Tables(FullRows, attrs) :
            Start([NoArgs EXCEPT !.is_type = t, !.is_species = s, !.inliers = i],
                  NoFiles(NamesOf(rows)), Columns, rows)

\* --drop-duplicate-sequences: accession and seqhash vary
DedupInputs ==
    LET attrs == {[DefaultAttr EXCEPT !.accession = a, !.seqhash = h] :
                      a \in {"a1", "a2"}, h \in {"h1", "h2"}}
    IN  \E d \in BOOLEAN, rows \in Tables(MaxRows, attrs) :
            Start([NoArgs EXCEPT !.drop_duplicate_sequences = d],
                  NoFiles(NamesOf(rows)), Columns, rows)

\* --species-cap: species varies, null included; the table of the spec's
\* example (three rows of one species, then one of another) is among them
CapInputs ==
    LET attrs == {[DefaultAttr EXCEPT !.species = s] : s \in {NaN, "sp1", "sp2"}}
        caps == {NoInt} \cup {IntArg(n) : n \in 0..MaxCap}
        example == [i \in 1..4 |->
                       Row(i, [DefaultAttr EXCEPT
                                  !.species = IF i = 4 THEN "sp2" ELSE "sp1"])]
    IN  \E c \in caps, rows \in Tables(MaxRows, attrs) \cup {example} :
            Start([NoArgs EXCEPT !.species_cap = c],
                  NoFiles(NamesOf(rows)), Columns, rows)

\* --do_not_trust: tax_id and accession vary (version and seqname differ row
\* by row), the list matches by each of the four columns, with and without
\* --trusted, on a table that has every column or lacks one of the four; the
\* five-row table has one row for each kind of match and one that matches
\* nothing
DoNotTrustInputs ==
    LET attrs == {[DefaultAttr EXCEPT !.tax_id = t, !.accession = a] :
                      t \in {"t1", "t2"}, a \in {"a1", "a2"}}
        example == [i \in 1..5 |->
                       Row(i, [DefaultAttr EXCEPT
                                  !.tax_id = IF i = 1 THEN "t2" ELSE "t1",
                                  !.accession = IF i = 2 THEN "a2" ELSE "a1"])]
        dnts == {{Line("t1")}, {Line("a2")}, {Line("v1")}, {Line("s2")},
                 {Comment("s1"), Line("t2"), Line("")},
                 {Line("t2"), Line("a2"), Line("v3"), Line("s4")}}
        lists == {{}, {Line("s1")}, {Line("v2"), Line("a2")}}
        cols == {Columns} \cup
                {Columns \ {DoNotTrustColumns[k]} : k \in 1..Len(DoNotTrustColumns)}
    IN  \E x \in dnts, l \in lists, c \in cols,
           rows \in Tables(FullRows, attrs) \cup {example} :
            Start([NoArgs EXCEPT !.do_not_trust = TRUE, !.trusted = (l # {})],
                  [trusted |-> l, trusted_taxids |-> {}, do_not_trust |-> x,
                   fasta |-> NamesOf(rows)],
                  c, rows)

\* a table that lacks one column, under every option that reads a column;
\* the table is empty, or has one row, which --is_type may remove
ConfigInputs ==
    LET tables == {<<>>,
                   [i \in 1..1 |-> Row(i, DefaultAttr)],
                   [i \in 1..1 |-> Row(i, [DefaultAttr EXCEPT !.is_type = FALSE])]}
        opts == {NoArgs,
                 [NoArgs EXCEPT !.is_type = TRUE, !.drop_duplicate_sequences = TRUE],
                 [NoArgs EXCEPT !.is_valid = TRUE],
                 [NoArgs EXCEPT !.trusted_taxids = TRUE],
                 [NoArgs EXCEPT !.min_length = IntArg(10)],
                 [NoArgs EXCEPT !.min_length = IntArg(0)],
                 [NoArgs EXCEPT !.prop_ambig_cutoff = CutoffArg(1, 2)],
                 [NoArgs EXCEPT !.prop_ambig_cutoff = CutoffArg(0, 1)],
                 [NoArgs EXCEPT !.is_type = TRUE],
                 [NoArgs EXCEPT !.is_species = TRUE],
                 [NoArgs EXCEPT !.inliers = TRUE],
                 [NoArgs EXCEPT !.do_not_trust = TRUE],
                 [NoArgs EXCEPT !.drop_duplicate_sequences = TRUE],
                 [NoArgs EXCEPT !.species_cap = IntArg(1)],
                 [NoArgs EXCEPT !.species_cap = IntArg(0)],
                 [NoArgs EXCEPT !.trusted = TRUE]}
    IN  \E a \in opts, c \in Columns, rows \in tables :
            Start(a,
                  [trusted |-> IF a.trusted THEN {Line("s1")} ELSE {},
                   trusted_taxids |-> IF a.trusted_taxids THEN {Line("t1")} ELSE {},
                   do_not_trust |-> IF a.do_not_trust THEN {Line("t2")} ELSE {},
                   fasta |-> NamesOf(rows)],
                  Columns \ {c}, rows)

\* the options together: rows rejected by the OR phase (is_valid) and by the
\* AND phase (--do_not_trust), duplicates, --trusted, --species-cap, and
\* FASTA files that lack a record
FullInputs ==
    LET attrs == {[DefaultAttr EXCEPT !.is_valid = v, !.accession = a, !.species = s] :
                      v \in BOOLEAN, a \in {"a1", "a2"}, s \in {NaN, "sp1"}}
        lists == {{}, {Line("a1")}, {Line("s2"), Comment("s1")}, {Line("v1"), Line("a2")}}
        dnts == {{}, {Line("a1")}, {Line("s2")}}
        caps == {NoInt, IntArg(1)}
    IN  \E l \in lists, x \in dnts, d \in BOOLEAN, c \in caps,
           m \in {{}, {"s1"}, {"s2"}}, rows \in Tables(FullRows, attrs) :
            Start([NoArgs EXCEPT !.is_valid = TRUE,
                                 !.trusted = (l # {}),
                                 !.do_not_trust = (x # {}),
                                 !.drop_duplicate_sequences = d,
                                 !.species_cap = c],
                  [trusted |-> l, trusted_taxids |-> {}, do_not_trust |-> x,
                   fasta |-> NamesOf(rows) \ m],
                  Columns, rows)

Init ==
    \/ OrInputs
    \/ NumericInputs
    \/ FlagInputs
    \/ DedupInputs
    \/ CapInputs
    \/ DoNotTrustInputs
    \/ ConfigInputs
    \/ FullInputs

Spec == Init /\ [][Next]_vars

\* ------------------------------------------------------------ the claims
\* the table as loaded, and the table on entering a stage
Loaded == hist["trusted"]

RowsOf(t) == {t[k] : k \in 1..Len(t)}

Count(t, r) == Cardinality({k \in 1..Len(t) : t[k] = r})

\* the entries of an identifier list: its non-comment, non-empty lines
Entries(lines) == {l.text : l \in {x \in lines : ~x.comment /\ x.text # ""}}

MatchesTrusted(r) ==
    /\ args.trusted
    /\ {r.version, r.accession, r.seqname} \cap Entries(fs.trusted) # {}

MatchesDoNotTrust(r) ==
    {r.tax_id, r.accession, r.version, r.seqname} \cap Entries(fs.do_not_trust) # {}

\* a loaded row the OR-admit or the AND-require phase rejected: it is not in
\* the table that leaves the last AND filter
Rejected(r) == r \notin RowsOf(hist["drop_duplicates"])

\* C1: when the run completes, the rows of the metadata output and the
\* records of the sequence output correspond one to one by seqname, and no
\* final row has a seqname the FASTA mapping lacks.
C1_Bijection ==
    pc = "done" =>
        /\ \A k \in 1..Len(out_info.rows) :
              /\ "seqname" \notin out_info.rows[k].na
              /\ out_info.rows[k].seqname \in fs.fasta
              /\ Cardinality({j \in 1..Len(out_fa.records) :
                     out_fa.records[j].id = out_info.rows[k].seqname}) = 1
        /\ \A j \in 1..Len(out_fa.records) :
              Cardinality({k \in 1..Len(out_info.rows) :
                  /\ "seqname" \notin out_info.rows[k].na
                  /\ out_info.rows[k].seqname = out_fa.records[j].id}) = 1

\* C1 witness: a completed run that wrote a record, dropped a loaded row
\* whose sequence is missing, and dropped a blanked trusted row.
C1_Witness ==
    /\ pc = "done"
    /\ Len(out_fa.records) >= 1
    /\ \E r \in RowsOf(hist["reconcile"]) :
          "seqname" \notin r.na /\ r.seqname \notin fs.fasta
    /\ \E r \in RowsOf(hist["reconcile"]) : "seqname" \in r.na

\* C2 as stated: under every combination of flags, a loaded row that
\* matches --trusted and was rejected by the OR or AND phase is exactly once
\* in the final table, after every surviving row that was not re-inserted.
\* It is taken here in the reading most favourable to it: over the rows
\* that have a species and whose sequence the FASTA file holds.
C2_Original ==
    pc = "done" =>
        \A r \in RowsOf(Loaded) :
            (/\ MatchesTrusted(r) /\ Rejected(r)
             /\ r.seqname \in fs.fasta /\ "species" \notin r.na) =>
                /\ Count(info, r) = 1
                /\ \A k, m \in 1..Len(info) :
                      (info[m] = r /\ info[k] \in RowsOf(hist["reinsert"])) => k < m

\* C2 amended: such a row is exactly once in the table that leaves the
\* trusted re-insertion stage, after every row that survived the filters; in
\* the final table it is at most once, still after every surviving row that
\* was not re-inserted, and exactly once when no non-zero --species-cap is
\* given and its seqname is in the FASTA mapping.
C2_Reinserted ==
    \A r \in RowsOf(Loaded) :
        (MatchesTrusted(r) /\ Rejected(r)) =>
            /\ pc \in {"species_cap", "reconcile", "done"} =>
                  /\ Count(hist["species_cap"], r) = 1
                  /\ \A m \in 1..Len(hist["species_cap"]) :
                        hist["species_cap"][m] = r => m > Len(hist["reinsert"])
            /\ pc = "done" =>
                  /\ Count(info, r) <= 1
                  /\ \A k, m \in 1..Len(info) :
                        (info[m] = r /\ info[k] \in RowsOf(hist["reinsert"])) => k < m
                  /\ (~TruthyInt(args.species_cap) /\ r.seqname \in fs.fasta)
                        => Count(info, r) = 1

\* C2 witness: a completed run whose final table holds a re-inserted trusted
\* row that the filters had rejected, after a row that survived them.
C2_Witness ==
    /\ pc = "done"
    /\ \E r \in RowsOf(Loaded) :
          /\ MatchesTrusted(r) /\ Rejected(r)
          /\ r \in RowsOf(info)
          /\ RowsOf(info) \cap RowsOf(hist["reinsert"]) # {}

\* C3: right after the OR-admit phase the table holds exactly the loaded
\* rows, in order, for which is_valid filtering was not requested, or
\* is_valid is true, or a trusted-taxid list was given and holds the row's
\* tax_id; the keep column is gone.
C3_OrAdmit ==
    pc = "min_length" =>
        /\ info = SelectSeq(Loaded, LAMBDA r:
                      \/ ~args.is_valid
                      \/ r.is_valid
                      \/ (args.trusted_taxids
                            /\ r.tax_id \in Entries(fs.trusted_taxids)))
        /\ "keep" \notin columns

\* C3 witness: both OR options given, a row with is_valid false survives by
\* its tax_id and another is dropped.
C3_Witness ==
    /\ pc = "min_length"
    /\ args.is_valid /\ args.trusted_taxids
    /\ \E r \in RowsOf(info) : ~r.is_valid
    /\ Len(info) < Len(Loaded)

\* C4 as stated: whenever --prop-ambig-cutoff c is given with c in [0,1],
\* c = 0.0 included, the rows that leave the prop-ambig stage are exactly
\* those entering it with length > 0 and ambig_count / length <= c.
C4_Claim ==
    (/\ pc = "is_type"
     /\ args.prop_ambig_cutoff.given
     /\ 0 <= args.prop_ambig_cutoff.num
     /\ args.prop_ambig_cutoff.num <= args.prop_ambig_cutoff.den) =>
        info = SelectSeq(hist["prop_ambig"], LAMBDA r:
                   /\ r.length > 0
                   /\ r.ambig_count * args.prop_ambig_cutoff.den
                        <= args.prop_ambig_cutoff.num * r.length)

\* C5 as stated: with a --do_not_trust list, no row matching an entry by
\* tax_id, accession, version or seqname is in the final table, also when
\* --trusted matches the row.
C5_Original ==
    (pc = "done" /\ args.do_not_trust) =>
        \A k \in 1..Len(info) : ~MatchesDoNotTrust(info[k])

\* C5 amended: no row matching a do-not-trust entry is in the final table,
\* unless the row also matches the --trusted list (by version, accession or
\* seqname), which re-inserts it.
C5_DoNotTrust ==
    (pc = "done" /\ args.do_not_trust) =>
        \A k \in 1..Len(info) :
            MatchesDoNotTrust(info[k]) => MatchesTrusted(info[k])

\* C5 witness: a completed run with a do-not-trust list that removed, for
\* each of tax_id, accession, version and seqname, a row that had passed every
\* earlier filter and matches the list by that column alone, and kept another
\* row.
C5_Witness ==
    /\ pc = "done"
    /\ args.do_not_trust
    /\ \A k \in 1..Len(DoNotTrustColumns) :
          \E r \in RowsOf(hist["do_not_trust"]) :
              /\ {j \in 1..Len(DoNotTrustColumns) :
                      r[DoNotTrustColumns[j]] \in Entries(fs.do_not_trust)} = {k}
              /\ ~MatchesTrusted(r)
              /\ r \notin RowsOf(info)
    /\ Len(info) >= 1

\* C6 as stated: with --species-cap N the table that leaves the species-cap
\* stage holds, for every species value and for the null group, the first
\* min(N, group size) rows of the group in the order before the stage.
\* It is taken here for N >= 1.
C6_Claim ==
    (pc = "reconcile" /\ args.species_cap.given /\ args.species_cap.val >= 1) =>
        LET before == hist["species_cap"]
            SameGroup(a, b) ==
                IF "species" \in a.na THEN "species" \in b.na
                ELSE "species" \notin b.na /\ a.species = b.species
            rank == [k \in 1..Len(before) |->
                        Cardinality({j \in 1..(k - 1) : SameGroup(before[j], before[k])})]
        IN  info = MaskRows(before, [k \in 1..Len(before) |->
                                        rank[k] < args.species_cap.val])

\* C7: the dedup stage keeps, for every (accession, seqhash) pair of the
\* table, exactly the first row with that pair, in table order, and
\* applying it again to its result removes nothing and reorders nothing.
C7_Dedup ==
    (pc = "reinsert" /\ args.drop_duplicate_sequences) =>
        LET before == hist["drop_duplicates"]
            Pair(r) == <<r.accession, r.seqhash>>
            first == {k \in 1..Len(before) :
                         \A j \in 1..(k - 1) : Pair(before[j]) # Pair(before[k])}
        IN  /\ RowsOf(info) = {before[k] : k \in first}
            /\ Len(info) = Cardinality(first)
            /\ \A a, b \in 1..Len(info) : a < b => info[a].idx < info[b].idx
            /\ DropDuplicates(info) = info

\* C7 witness: the stage ran on a table where one pair occurs three times
\* and kept the first row of it.
C7_Witness ==
    /\ pc = "reinsert"
    /\ args.drop_duplicate_sequences
    /\ \E r \in RowsOf(info) :
          Cardinality({k \in 1..Len(hist["drop_duplicates"]) :
              /\ hist["drop_duplicates"][k].accession = r.accession
              /\ hist["drop_duplicates"][k].seqhash = r.seqhash}) >= 3

\* out of range: a negative --min-length, a cutoff outside [0,1]
OutOfRange ==
    \/ args.min_length.given /\ args.min_length.val < 0
    \/ /\ args.prop_ambig_cutoff.given
       /\ \/ args.prop_ambig_cutoff.num < 0
          \/ args.prop_ambig_cutoff.num > args.prop_ambig_cutoff.den

\* the table that reaches line 125: the loaded table after the OR phase and
\* every enabled AND filter
FilteredTable(t, a, files) ==
    LET t1 == DropOrRows(t, KeepColumn(t, a, ReadIds(files.trusted_taxids)))
        t2 == IF TruthyInt(a.min_length) THEN MinLengthFilter(t1, a.min_length.val) ELSE t1
        t3 == IF TruthyCutoff(a.prop_ambig_cutoff)
              THEN PropAmbigFilter(t2, a.prop_ambig_cutoff) ELSE t2
        t4 == IF a.is_type THEN IsTypeFilter(t3) ELSE t3
        t5 == IF a.is_species THEN IsSpeciesFilter(t4) ELSE t4
        t6 == IF a.inliers THEN InliersFilter(t5) ELSE t5
    IN  IF a.do_not_trust THEN DoNotTrustFilter(t6, ReadIds(files.do_not_trust)) ELSE t6

\* an enabled stage reads a column the loaded table lacks; the numeric
\* options enable their stage by truthiness (None and 0 / 0.0 are both off),
\* and drop_duplicates reads its columns only when a row reaches it
MissingColumn ==
    \/ args.trusted /\ ~({"version", "accession", "seqname"} \subseteq columns)
    \/ args.is_valid /\ "is_valid" \notin columns
    \/ args.trusted_taxids /\ "tax_id" \notin columns
    \/ TruthyInt(args.min_length) /\ "length" \notin columns
    \/ TruthyCutoff(args.prop_ambig_cutoff)
          /\ ~({"ambig_count", "length"} \subseteq columns)
    \/ args.is_type /\ "is_type" \notin columns
    \/ args.is_species /\ "species" \notin columns
    \/ args.inliers /\ "is_out" \notin columns
    \/ args.do_not_trust
          /\ ~({"tax_id", "accession", "version", "seqname"} \subseteq columns)
    \/ args.drop_duplicate_sequences
          /\ ~(DropDuplicatesReads(FilteredTable(Loaded, args, fs)) \subseteq columns)
    \/ TruthyInt(args.species_cap) /\ "species" \notin columns

\* C8 as stated: a run with a configuration error (a missing column for an
\* enabled filter, a numeric parameter out of range) never completes and
\* never opens an output file.
C8_Claim ==
    (OutOfRange \/ MissingColumn) =>
        /\ pc # "done"
        /\ ~out_fa.opened
        /\ ~out_info.opened

\* C9 as stated: once a loaded row is out of the table, it is out of the
\* table after every later stage.
C9_Original ==
    [][\A r \in RowsOf(Loaded) :
          r \notin RowsOf(info) => r \notin RowsOf(info')]_vars

\* C9 amended: a loaded row that is out of the table comes back only at the
\* trusted re-insertion stage and only if it matches the --trusted list;
\* every other drop, and every drop after that stage, is permanent.
C9_DropPermanent ==
    [][\A r \in RowsOf(Loaded) :
          (r \notin RowsOf(info) /\ r \in RowsOf(info')) =>
              (pc = "reinsert" /\ MatchesTrusted(r))]_vars

\* C9 witness: a completed run with --trusted in which one dropped row
\* stayed out and another came back.
C9_Witness ==
    /\ pc = "done"
    /\ args.trusted
    /\ \E r \in RowsOf(Loaded) : r \notin RowsOf(info) /\ ~MatchesTrusted(r)
    /\ \E r \in RowsOf(info) : r \notin RowsOf(hist["reinsert"])

\* C10 as stated: after every stage each row of the table is a loaded row
\* with its values unchanged, and no loaded row occurs twice.
C10_Claim ==
    /\ \A k \in 1..Len(info) : info[k] \in RowsOf(Loaded)
    /\ \A k, m \in 1..Len(info) : info[k] = info[m] => k = m

====
